---------------------------- MODULE Spec2Model ----------------------------
(***************************************************************************)
(* A model of ws-schema's WsSchema class (src/src/WsSchema.ts, the class   *)
(* that starts at line 155): the envelope builder (send / data /           *)
(* stringify / to / emit) and the callback built by receiver(on, config).  *)
(*                                                                         *)
(* A JavaScript string is the sequence of its UTF-16 code units, each a    *)
(* natural below 65536; Text("...") gives the code units of what is        *)
(* written between the quotes.                                             *)
(*                                                                         *)
(* JavaScript values are records [t, s, k]: t is the kind of value, s its  *)
(* text (the content of a string, the digits of a number, the JSON text    *)
(* of an object or array) and k what String(value) gives, which is the     *)
(* property key the value is turned into by validators[value].             *)
(***************************************************************************)
EXTENDS Integers, Sequences, FiniteSets, TLC

---------------------------------------------------------------------------
(* Strings *)

\* y, computed once x has been: operators take their arguments unevaluated,
\* and a long chain of them is evaluated at its far end.
After(x, y) == IF x = x THEN y ELSE y

\* c.charCodeAt(0) for each of the characters U+0020 to U+005F and U+0061
\* to U+007E, ascii holding them in the order of their codes.
Codes ==
    LET ascii == " !\"#$%&'()*+,-./0123456789:;<=>?@ABCDEFGHIJKLMNOPQRSTUVWXYZ[\\]^_abcdefghijklmnopqrstuvwxyz{|}~"
        place(c) == CHOOSE i \in 1..Len(ascii) : SubSeq(ascii, i, i) = c
        codes == [c \in {SubSeq(ascii, i, i) : i \in 1..Len(ascii)} |->
                     IF place(c) <= 64 THEN place(c) + 31 ELSE place(c) + 32]
    IN  After(codes, codes)

Code(c) == Codes[c]

\* The code units of the characters written in lit.
Text(lit) == <<>> \o [i \in 1..Len(lit) |-> Code(SubSeq(lit, i, i))]

\* str.charCodeAt(i - 1)
Ch(str, i) == str[i]

\* The code unit at place i, -1 where the string has none.
At(str, i) == IF 1 <= i /\ i <= Len(str) THEN str[i] ELSE -1

Least(S) == CHOOSE i \in S : \A j \in S : i <= j
Greatest(S) == CHOOSE i \in S : (i + 1) \notin S /\ \A j \in S : j <= i

\* "0" to "9"
Digits == 48..57

\* The white space of JSON: tab, line feed, carriage return, space.
Whitespace == {9, 10, 13, 32}

\* The value of a hexadecimal digit; -1 for any other code unit.
HexVal(c) ==
    IF c \in 48..57 THEN c - 48
    ELSE IF c \in 65..70 THEN c - 55
    ELSE IF c \in 97..102 THEN c - 87
    ELSE -1

\* The lower-case hexadecimal digit of n.
HexDigit(n) == IF n < 10 THEN 48 + n ELSE 87 + n

---------------------------------------------------------------------------
(* JavaScript values *)

\* In the place of k: String(value) throws a TypeError.
TypeErrorKey == <<-1>>

Undefined == [t |-> "undefined", s |-> Text("undefined"), k |-> Text("undefined")]
Null == [t |-> "null", s |-> Text("null"), k |-> Text("null")]
Str(x) == [t |-> "string", s |-> x, k |-> x]
\* The number whose text is x; the text of negative zero is "-0", and
\* String(-0) is "0".
Num(x) == [t |-> "number", s |-> x, k |-> IF x = Text("-0") THEN Text("0") ELSE x]
Bool(x) == [t |-> "boolean", s |-> x, k |-> x]
\* An object, which String() turns into "[object Object]" unless it has a
\* member toString of its own: toString is not a function then, and
\* neither it nor valueOf gives a primitive.
Obj(json, ownToString) ==
    [t |-> "object", s |-> json,
     k |-> IF ownToString THEN TypeErrorKey ELSE Text("[object Object]")]
Arr(json, joined) == [t |-> "array", s |-> json, k |-> joined]

\* !v : the values JavaScript treats as false.
Falsy(v) ==
    \/ v.t \in {"undefined", "null"}
    \/ v.t = "boolean" /\ v.s = Text("false")
    \/ v.t = "number" /\ v.s \in {Text("0"), Text("-0"), Text("NaN")}
    \/ v.t = "string" /\ v.s = <<>>

\* typeof v
TypeOf(v) ==
    IF v.t \in {"null", "array"} THEN "object" ELSE v.t

---------------------------------------------------------------------------
(* JSON.stringify *)

\* The code unit at place i is the first or the second half of a surrogate
\* pair: U+D800 to U+DBFF followed by U+DC00 to U+DFFF.
Paired(str, i) ==
    \/ str[i] \in 55296..56319 /\ At(str, i + 1) \in 56320..57343
    \/ str[i] \in 56320..57343 /\ At(str, i - 1) \in 55296..56319

\* \uXXXX for the code unit c.
UnicodeEscape(c) ==
    Text("\\u") \o <<HexDigit(c \div 4096), HexDigit((c \div 256) % 16),
                     HexDigit((c \div 16) % 16), HexDigit(c % 16)>>

\* What JSON.stringify writes for the code unit at place i of a string:
\* an escape for the quote, the backslash, the control characters and a
\* surrogate without its other half.
EscapeChar(str, i) ==
    CASE str[i] = 34 -> Text("\\\"")
      [] str[i] = 92 -> Text("\\\\")
      [] str[i] = 8 -> Text("\\b")
      [] str[i] = 9 -> Text("\\t")
      [] str[i] = 10 -> Text("\\n")
      [] str[i] = 12 -> Text("\\f")
      [] str[i] = 13 -> Text("\\r")
      [] str[i] < 32 -> UnicodeEscape(str[i])
      [] str[i] \in 55296..57343 /\ ~Paired(str, i) -> UnicodeEscape(str[i])
      [] OTHER -> <<str[i]>>

\* JSON.stringify's text for the characters lo..hi of a string.
RECURSIVE EscapeRange(_, _, _)
EscapeRange(str, lo, hi) ==
    IF lo > hi THEN <<>>
    ELSE IF lo = hi THEN EscapeChar(str, lo)
    ELSE LET mid == (lo + hi) \div 2
         IN  EscapeRange(str, lo, mid) \o EscapeRange(str, mid + 1, hi)

Quote(str) == <<34>> \o EscapeRange(str, 1, Len(str)) \o <<34>>

\* JSON.stringify(v) for a value that is not undefined: a number that is
\* not finite is written null, any other as String() writes it.
JSONStringify(v) ==
    CASE v.t = "string" -> Quote(v.s)
      [] v.t = "number" ->
            IF v.s \in {Text("NaN"), Text("Infinity"), Text("-Infinity")}
            THEN Text("null") ELSE v.k
      [] OTHER -> v.s

\* What Array.prototype.join contributes for one element.
JoinKey(v) == IF v.t \in {"null", "undefined"} THEN <<>> ELSE v.k

PFail == [ok |-> FALSE, v |-> Undefined, event |-> Undefined,
          data |-> Undefined, next |-> 0]
POk(v, event, data, next) ==
    [ok |-> TRUE, v |-> v, event |-> event, data |-> data, next |-> next]

---------------------------------------------------------------------------
(* Numbers.  JSON.parse turns a number literal into the nearest IEEE 754   *)
(* double, and String(n) writes the shortest decimal that reads back as    *)
(* the same double.  Both are computed exactly, on naturals of any size:   *)
(* sequences of decimal digits, least significant first, zero being <<>>.  *)

\* The value of the digit character c, and the character of the digit d.
DigitVal(c) == c - 48
DigitChar(d) == <<48 + d>>

\* The place of the highest digit of a[lo..hi] that is not 0, or 0.
RECURSIVE TopDigit(_, _, _)
TopDigit(a, lo, hi) ==
    IF lo > hi THEN 0
    ELSE IF lo = hi THEN (IF a[lo] # 0 THEN lo ELSE 0)
    ELSE LET mid == (lo + hi) \div 2
             top == TopDigit(a, mid + 1, hi)
         IN  IF top # 0 THEN top ELSE TopDigit(a, lo, mid)

Trim(a) == SubSeq(a, 1, TopDigit(a, 1, Len(a)))

DigitAt(a, i) == IF i <= Len(a) THEN a[i] ELSE 0

RECURSIVE SmallToBig(_)
SmallToBig(n) == IF n = 0 THEN <<>> ELSE <<n % 10>> \o SmallToBig(n \div 10)

\* Digits lo..hi of a + b + carry, and the carry out of them.  The halves
\* are done one after the other, so the depth is the logarithm of the length.
RECURSIVE AddRange(_, _, _, _, _)
AddRange(a, b, lo, hi, carry) ==
    IF lo = hi
    THEN LET t == DigitAt(a, lo) + DigitAt(b, lo) + carry
         IN  [s |-> <<t % 10>>, c |-> t \div 10]
    ELSE LET mid == (lo + hi) \div 2
             low == AddRange(a, b, lo, mid, carry)
             high == AddRange(a, b, mid + 1, hi, low.c)
         IN  After(low, [s |-> low.s \o high.s, c |-> high.c])

BigAdd(a, b) ==
    IF a = <<>> THEN b
    ELSE IF b = <<>> THEN a
    ELSE LET n == IF Len(a) > Len(b) THEN Len(a) ELSE Len(b)
             sum == AddRange(a, b, 1, n, 0)
         IN  sum.s \o SmallToBig(sum.c)

\* a - b for a >= b
RECURSIVE SubRange(_, _, _, _, _)
SubRange(a, b, lo, hi, borrow) ==
    IF lo = hi
    THEN LET t == a[lo] - DigitAt(b, lo) - borrow
         IN  [s |-> <<t % 10>>, c |-> IF t < 0 THEN 1 ELSE 0]
    ELSE LET mid == (lo + hi) \div 2
             low == SubRange(a, b, lo, mid, borrow)
             high == SubRange(a, b, mid + 1, hi, low.c)
         IN  After(low, [s |-> low.s \o high.s, c |-> high.c])

BigSub(a, b) == IF a = <<>> THEN <<>> ELSE Trim(SubRange(a, b, 1, Len(a), 0).s)

\* -1, 0, 1 as a < b, a = b, a > b on the digits lo..hi, the high ones first.
RECURSIVE CmpRange(_, _, _, _)
CmpRange(a, b, lo, hi) ==
    IF lo > hi THEN 0
    ELSE IF lo = hi
         THEN (IF a[lo] < b[lo] THEN -1 ELSE IF a[lo] > b[lo] THEN 1 ELSE 0)
    ELSE LET mid == (lo + hi) \div 2
             top == CmpRange(a, b, mid + 1, hi)
         IN  IF top # 0 THEN top ELSE CmpRange(a, b, lo, mid)

BigCmp(a, b) ==
    IF Len(a) < Len(b) THEN -1
    ELSE IF Len(a) > Len(b) THEN 1
    ELSE CmpRange(a, b, 1, Len(a))

\* a * c for a small c
RECURSIVE MulRange(_, _, _, _, _)
MulRange(a, c, lo, hi, carry) ==
    IF lo = hi
    THEN LET t == a[lo] * c + carry
         IN  [s |-> <<t % 10>>, c |-> t \div 10]
    ELSE LET mid == (lo + hi) \div 2
             low == MulRange(a, c, lo, mid, carry)
             high == MulRange(a, c, mid + 1, hi, low.c)
         IN  After(low, [s |-> low.s \o high.s, c |-> high.c])

MulSmall(a, c) ==
    IF a = <<>> \/ c = 0 THEN <<>>
    ELSE LET prod == MulRange(a, c, 1, Len(a), 0) IN prod.s \o SmallToBig(prod.c)

\* a * 10^n
Times10(a, n) == IF a = <<>> THEN <<>> ELSE [i \in 1..n |-> 0] \o a

\* a * 2^n
RECURSIVE Times2(_, _)
Times2(a, n) ==
    IF n <= 16 THEN MulSmall(a, 2^n)
    ELSE LET half == Times2(a, n \div 2) IN After(half, Times2(half, n - (n \div 2)))

\* The digits of a string of digits, as a natural.
FromDigits(str) == Trim([i \in 1..Len(str) |-> DigitVal(str[Len(str) + 1 - i])])

\* The decimal digits of a small natural.
RECURSIVE SmallToDigits(_)
SmallToDigits(n) ==
    IF n < 10 THEN DigitChar(n) ELSE SmallToDigits(n \div 10) \o DigitChar(n % 10)

\* How often b goes into a, when that is at most 9 times.
DivDigit(a, b) == Cardinality({d \in 1..9 : BigCmp(MulSmall(b, d), a) <= 0})

\* Long division of a by b for the places p from hi down to lo of the
\* quotient: the digits found, least significant first, and what is left.
RECURSIVE DivRange(_, _, _, _)
DivRange(a, b, lo, hi) ==
    IF lo = hi
    THEN LET d == DivDigit(a, Times10(b, lo))
         IN  [quot |-> <<d>>, rem |-> BigSub(a, MulSmall(Times10(b, lo), d))]
    ELSE LET mid == (lo + hi) \div 2
             high == DivRange(a, b, mid + 1, hi)
             low == DivRange(high.rem, b, lo, mid)
         IN  After(high, [quot |-> low.quot \o high.quot, rem |-> low.rem])

\* a \div b and a % b when the quotient is below 10^(p+1).
BigDivMod(a, b, p) ==
    LET dm == DivRange(a, b, 0, p) IN [quot |-> Trim(dm.quot), rem |-> dm.rem]

IsEven(a) == a = <<>> \/ a[1] % 2 = 0

TwoTo52 == Times2(<<1>>, 52)
TwoTo53 == Times2(<<1>>, 53)

\* How many times b has to be doubled for a / b to be below 2^53, when
\* that is at most 12 times.
Fit(a, b) == Cardinality({j \in 0..11 : BigCmp(a, Times2(b, 53 + j)) >= 0})

\* The rounded mantissa m1 at exponent q: 2^53 is carried into the
\* exponent, and an exponent above 971 is Infinity.
RoundCarry(m1, q) ==
    [kind |-> IF (IF m1 = TwoTo53 THEN q + 1 ELSE q) > 971 THEN "inf" ELSE "finite",
     m |-> IF m1 = TwoTo53 THEN TwoTo52 ELSE m1,
     q |-> IF m1 = TwoTo53 THEN q + 1 ELSE q]

\* Round to nearest, ties to even: half compares twice the remainder with
\* the divisor.
RoundTie(dm, half, q) ==
    RoundCarry(IF half > 0 \/ (half = 0 /\ ~IsEven(dm.quot))
               THEN BigAdd(dm.quot, <<1>>) ELSE dm.quot, q)

RoundHalf(dm, b1, q) == RoundTie(dm, BigCmp(MulSmall(dm.rem, 2), b1), q)

\* a0 / b1 is below 2^53: its quotient is the mantissa before rounding.
RoundDivide(a0, b1, q) == RoundHalf(BigDivMod(a0, b1, 16), b1, q)

RoundFit(a0, b0, q0, fit) == RoundDivide(a0, Times2(b0, fit), q0 + fit)

RoundScale(a0, b0, q0) == RoundFit(a0, b0, q0, Fit(a0, b0))

\* num / den at the binary exponent q0, an estimate not above the exponent
\* of the result and not below that of the subnormals.
RoundEstimate(num, den, q0) ==
    RoundScale(IF q0 < 0 THEN Times2(num, -q0) ELSE num,
               IF q0 > 0 THEN Times2(den, q0) ELSE den, q0)

RoundBounded(num, den, est) == RoundEstimate(num, den, IF est < -1074 THEN -1074 ELSE est)

RoundRatio(num, den) ==
    RoundBounded(num, den, (((Len(num) - Len(den)) * 3322) \div 1000) - 56)

\* The double nearest to d * 10^e for a natural d > 0, ties to the even
\* mantissa: m * 2^q with m below 2^53, and with m at least 2^52 unless q
\* is -1074.  m = <<>> is zero and kind "inf" is Infinity.
NearestDouble(d, e) ==
    RoundRatio(IF e >= 0 THEN Times10(d, e) ELSE d,
               IF e >= 0 THEN <<1>> ELSE Times10(<<1>>, -e))

\* r + mp is at or beyond s: the digits would pass the upper neighbour.
TooHigh(r, mp, s, even) ==
    LET c == BigCmp(BigAdd(r, mp), s) IN c > 0 \/ (c = 0 /\ even)

\* rem is less than half of s, or the half of it with d even: of the two
\* last digits d and d + 1, d is the closer one, the even one when both are
\* as close.
Nearer(rem, s, d) ==
    LET c == BigCmp(MulSmall(rem, 2), s) IN c < 0 \/ (c = 0 /\ d % 2 = 0)

\* The digit d is written and rem is left; tc1, tc2: the digits written
\* are already within the lower, the upper midpoint, and the digit is the
\* last: d or d + 1.
DigitWritten(g, s, rem, mp10, mm10, d, tc1, tc2) ==
    IF ~tc1 /\ ~tc2
    THEN [r |-> rem, mp |-> mp10, mm |-> mm10,
          acc |-> g.acc \o DigitChar(d), done |-> FALSE]
    ELSE [r |-> rem, mp |-> mp10, mm |-> mm10,
          acc |-> g.acc \o DigitChar(
                      IF tc1 /\ (~tc2 \/ Nearer(rem, s, d)) THEN d ELSE d + 1),
          done |-> TRUE]

DigitCompared(g, s, even, rem, mp10, mm10, d, low) ==
    DigitWritten(g, s, rem, mp10, mm10, d, low < 0 \/ (low = 0 /\ even),
                 TooHigh(rem, mp10, s, even))

DigitLeft(g, s, even, rem, mp10, mm10, d) ==
    DigitCompared(g, s, even, rem, mp10, mm10, d, BigCmp(rem, mm10))

DigitTaken(g, s, even, r10, d) ==
    DigitLeft(g, s, even, BigSub(r10, MulSmall(s, d)),
              MulSmall(g.mp, 10), MulSmall(g.mm, 10), d)

DigitOf(g, s, even, r10) == DigitTaken(g, s, even, r10, DivDigit(r10, s))

\* One digit of the shortest decimal between the neighbours of the double:
\* r / s is what is left to write, mp / s and mm / s are the distances to
\* the midpoints of the upper and the lower neighbour.
GenerateDigit(g, s, even) ==
    IF g.done THEN g ELSE DigitOf(g, s, even, MulSmall(g.r, 10))

\* n digits, one after the other.
RECURSIVE Generate(_, _, _, _)
Generate(g, s, even, n) ==
    IF n = 1 THEN GenerateDigit(g, s, even)
    ELSE LET first == Generate(g, s, even, n \div 2)
         IN  After(first, Generate(first, s, even, n - (n \div 2)))

\* The digits from the scaled r1 / s1, with one more power of ten in s1
\* when the first digit would pass the upper neighbour.
ShortestWritten(r1, mp1, mm1, s1, k0, even, more) ==
    [digits |-> Generate([r |-> r1, mp |-> mp1, mm |-> mm1, acc |-> <<>>, done |-> FALSE],
                         IF more THEN MulSmall(s1, 10) ELSE s1, even, 17).acc,
     k |-> IF more THEN k0 + 1 ELSE k0]

ShortestScaled(r1, mp1, mm1, s1, k0, even) ==
    ShortestWritten(r1, mp1, mm1, s1, k0, even, TooHigh(r1, mp1, s1, even))

\* Scaling by 10^k0 so that the first digit is at most one place off.
ShortestPlaced(r0, mp0, mm0, s0, k0, even) ==
    ShortestScaled(IF k0 < 0 THEN Times10(r0, -k0) ELSE r0,
                   IF k0 < 0 THEN Times10(mp0, -k0) ELSE mp0,
                   IF k0 < 0 THEN Times10(mm0, -k0) ELSE mm0,
                   IF k0 > 0 THEN Times10(s0, k0) ELSE s0, k0, even)

ShortestSet(r0, mp0, mm0, s0, even) ==
    ShortestPlaced(r0, mp0, mm0, s0, Len(BigAdd(r0, mp0)) - Len(s0), even)

\* edge is 1 when the lower neighbour is half as far as the upper one.
ShortestEdge(m, q, edge) ==
    ShortestSet(IF q >= 0 THEN Times2(m, q + 1 + edge) ELSE Times2(m, 1 + edge),
                IF q >= 0 THEN Times2(<<1>>, q + edge) ELSE Times2(<<1>>, edge),
                IF q >= 0 THEN Times2(<<1>>, q) ELSE <<1>>,
                IF q >= 0 THEN Times2(<<1>>, 1 + edge) ELSE Times2(<<1>>, 1 + edge - q),
                IsEven(m))

\* The shortest digits of m * 2^q (m > 0) and the exponent k: the double
\* is the one nearest to 0.digits * 10^k.
Shortest(m, q) == ShortestEdge(m, q, IF m = TwoTo52 /\ q > -1074 THEN 1 ELSE 0)

\* n times "0"
Zeros(n) == <<>> \o [i \in 1..n |-> 48]

\* Number::toString for the positive number 0.digits * 10^k.
NumberToString(digits, k) ==
    LET n == Len(digits)
        e == k - 1
    IN  IF n <= k /\ k <= 21 THEN digits \o Zeros(k - n)
        ELSE IF 0 < k /\ k <= 21
             THEN SubSeq(digits, 1, k) \o Text(".") \o SubSeq(digits, k + 1, n)
        ELSE IF -6 < k /\ k <= 0 THEN Text("0.") \o Zeros(-k) \o digits
        ELSE <<digits[1]>> \o (IF n = 1 THEN <<>> ELSE Text(".") \o SubSeq(digits, 2, n))
             \o (IF e < 0 THEN Text("e-") \o SmallToDigits(-e)
                 ELSE Text("e+") \o SmallToDigits(e))

ShortestText(w) == NumberToString(w.digits, w.k)

\* String(n) for the double v.
ValueText(v) ==
    IF v.kind = "inf" THEN Text("Infinity")
    ELSE IF v.m = <<>> THEN Text("0")
    ELSE ShortestText(Shortest(v.m, v.q))

\* The places of a string where the character is not c.
Others(str, c) == {i \in 1..Len(str) : Ch(str, i) # c}

\* Without its leading, without its trailing zeros.
StripLeft(str) ==
    IF Others(str, 48) = {} THEN <<>> ELSE SubSeq(str, Least(Others(str, 48)), Len(str))

StripRight(str) ==
    IF Others(str, 48) = {} THEN <<>> ELSE SubSeq(str, 1, Greatest(Others(str, 48)))

RECURSIVE SmallValue(_)
SmallValue(str) ==
    IF str = <<>> THEN 0
    ELSE SmallValue(SubSeq(str, 1, Len(str) - 1)) * 10 + DigitVal(str[Len(str)])

\* The number 0.sig * 10^mag, sig without leading or trailing zeros.
LiteralPlaced(sig, mag) ==
    IF sig = <<>> THEN Text("0")
    ELSE IF mag > 309 THEN Text("Infinity")
    ELSE IF mag < -323 THEN Text("0")
    ELSE IF Len(sig) <= 15 /\ mag >= -300 /\ mag <= 300 THEN NumberToString(sig, mag)
    ELSE ValueText(NearestDouble(FromDigits(sig), mag - Len(sig)))

\* zeros trailing zeros were stripped, fracLen digits stood behind the
\* point and the exponent written is ex.
LiteralCounted(sig, zeros, fracLen, expNeg, ex) ==
    LiteralPlaced(sig, (IF expNeg THEN -ex ELSE ex) - fracLen + zeros + Len(sig))

\* x: the digits of the exponent without leading zeros; more than six of
\* them are beyond every double.
LiteralRaised(sig, zeros, fracLen, expNeg, x) ==
    LiteralCounted(sig, zeros, fracLen, expNeg,
                   IF Len(x) > 6 THEN 1000000 ELSE SmallValue(x))

LiteralStripped(all, sig, fracLen, expNeg, exp) ==
    LiteralRaised(sig, Len(all) - Len(sig), fracLen, expNeg, StripLeft(exp))

LiteralJoined(all, fracLen, expNeg, exp) ==
    LiteralStripped(all, StripRight(all), fracLen, expNeg, exp)

\* String(n) for the number written as the digits int.frac, times ten to
\* the power written as the digits exp, negated when expNeg.  A decimal
\* of at most 15 significant digits in the range of the normal doubles is
\* the shortest decimal that reads back as its double, so String(n) prints
\* those digits; every other literal is rounded to its double.
LiteralText(int, frac, expNeg, exp) ==
    LiteralJoined(StripLeft(int \o frac), Len(frac), expNeg, exp)

\* The end of the run of digits that starts at position i.
ScanDigits(str, i) ==
    LET stops == {j \in i..Len(str) : Ch(str, j) \notin Digits}
    IN  IF stops = {} THEN Len(str) + 1 ELSE Least(stops)

\* The number whose literal runs from i to before xe, its digits from d
\* (behind the minus sign, if there is one): txt is their value.
NumberValued(i, d, xe, txt) ==
    POk(Num(IF d > i THEN Text("-") \o txt ELSE txt), Undefined, Undefined, xe)

\* ie, fe, xe: the ends of the integer digits, the fraction and the
\* exponent; xs: the start of the exponent's digits.
NumberEnded(str, i, d, ie, fe, hasExp, xs, xe) ==
    IF ie = d \/ (At(str, ie) = Code(".") /\ fe = ie + 1) \/ (hasExp /\ xe = xs) THEN PFail
    ELSE NumberValued(i, d, xe,
                      LiteralText(SubSeq(str, d, ie - 1),
                                  SubSeq(str, ie + 1, fe - 1),
                                  hasExp /\ At(str, fe + 1) = Code("-"),
                                  IF hasExp THEN SubSeq(str, xs, xe - 1) ELSE <<>>))

NumberPowered(str, i, d, ie, fe, hasExp, xs) ==
    NumberEnded(str, i, d, ie, fe, hasExp, xs, IF hasExp THEN ScanDigits(str, xs) ELSE fe)

NumberMarked(str, i, d, ie, fe, hasExp) ==
    NumberPowered(str, i, d, ie, fe, hasExp,
                  IF hasExp /\ At(str, fe + 1) \in {Code("+"), Code("-")} THEN fe + 2 ELSE fe + 1)

NumberPointed(str, i, d, ie, fe) ==
    NumberMarked(str, i, d, ie, fe, At(str, fe) \in {Code("e"), Code("E")})

NumberWhole(str, i, d, ie) ==
    NumberPointed(str, i, d, ie,
                  IF At(str, ie) = Code(".") THEN ScanDigits(str, ie + 1) ELSE ie)

NumberSigned(str, i, d) ==
    NumberWhole(str, i, d, IF At(str, d) = Code("0") THEN d + 1 ELSE ScanDigits(str, d))

\* A number literal at position i:
\* -? (0 | [1-9][0-9]*) (. [0-9]+)? ([eE] [+-]? [0-9]+)?
ScanNumber(str, i) == NumberSigned(str, i, IF At(str, i) = Code("-") THEN i + 1 ELSE i)

---------------------------------------------------------------------------
(* JSON.parse *)

\* The first place from i on that holds no whitespace.
SkipWs(str, i) ==
    IF i <= Len(str) /\ Ch(str, i) \notin Whitespace THEN i
    ELSE LET stops == {j \in i..Len(str) : Ch(str, j) \notin Whitespace}
         IN  IF stops = {} THEN Len(str) + 1 ELSE Least(stops)

\* The number of backslashes that end right before place j, from place i on.
Backslashes(str, i, j) ==
    IF j <= i \/ Ch(str, j - 1) # Code("\\") THEN 0
    ELSE LET others == {k \in i..(j - 1) : Ch(str, k) # Code("\\")}
         IN  IF others = {} THEN j - i ELSE j - 1 - Greatest(others)

\* Place j holds a quote behind an even number of backslashes.
Closing(str, i, j) == Ch(str, j) = Code("\"") /\ Backslashes(str, i, j) % 2 = 0

\* The closing quote of the string literal whose characters start at i:
\* the first quote behind an even number of backslashes; 0 if there is none.
StringEnd(str, i) ==
    IF \E j \in i..Len(str) : Closing(str, i, j)
    THEN CHOOSE j \in i..Len(str) :
             Closing(str, i, j) /\ \A k \in i..(j - 1) : ~Closing(str, i, k)
    ELSE 0

\* The code unit a backslash escape of one letter stands for; -1 if none.
SimpleEscape(c) ==
    CASE c = Code("\"") -> 34
      [] c = Code("\\") -> 92
      [] c = Code("/") -> 47
      [] c = Code("b") -> 8
      [] c = Code("f") -> 12
      [] c = Code("n") -> 10
      [] c = Code("r") -> 13
      [] c = Code("t") -> 9
      [] OTHER -> -1

\* One character or escape of a string literal that ends before stop: st
\* holds the place i reached, the code units acc read and whether all is
\* ok.  A control character is not allowed; \uXXXX is the code unit XXXX.
ScanChar(st, str, stop) ==
    IF ~st.ok \/ st.i >= stop THEN st
    ELSE LET c == Ch(str, st.i)
             e == At(str, st.i + 1)
             h == [n \in 1..4 |-> HexVal(At(str, st.i + 1 + n))]
         IN  IF c < 32 THEN [st EXCEPT !.ok = FALSE]
             ELSE IF c # Code("\\") THEN [st EXCEPT !.i = @ + 1, !.acc = Append(@, c)]
             ELSE IF SimpleEscape(e) # -1
                  THEN [st EXCEPT !.i = @ + 2, !.acc = Append(@, SimpleEscape(e))]
             ELSE IF e = Code("u") /\ st.i + 5 < stop /\ \A n \in 1..4 : h[n] # -1
                  THEN [st EXCEPT !.i = @ + 6,
                                  !.acc = Append(@, ((h[1] * 16 + h[2]) * 16 + h[3]) * 16 + h[4])]
             ELSE [st EXCEPT !.ok = FALSE]

\* n characters or escapes, one after the other.
RECURSIVE ScanChars(_, _, _, _)
ScanChars(st, str, stop, n) ==
    IF n <= 1 THEN ScanChar(st, str, stop)
    ELSE LET first == ScanChars(st, str, stop, n \div 2)
         IN  After(first, ScanChars(first, str, stop, n - (n \div 2)))

\* The string literal whose characters start at position i (after the
\* opening quote).
ScanString(str, i) ==
    LET stop == StringEnd(str, i)
        st == ScanChars([i |-> i, acc |-> <<>>, ok |-> TRUE], str, stop, stop - i)
    IN  IF stop = 0 \/ ~st.ok THEN PFail
        ELSE POk(Str(st.acc), Undefined, Undefined, stop + 1)

ScanLiteral(str, i, word, v) ==
    IF i + Len(word) - 1 <= Len(str) /\ SubSeq(str, i, i + Len(word) - 1) = word
    THEN POk(v, Undefined, Undefined, i + Len(word))
    ELSE PFail

\* A property key that is an array index: a natural below 2^32 - 1 written
\* without leading zeros.  Objects list such keys first, in ascending order.
IsIndex(key) ==
    /\ key # <<>>
    /\ \A i \in 1..Len(key) : Ch(key, i) \in Digits
    /\ key = Text("0") \/ Ch(key, 1) # Code("0")
    /\ BigCmp(FromDigits(key), FromDigits(Text("4294967294"))) <= 0

\* Setting property key of the members ms to the value whose text is json:
\* a key already there keeps its place.
SetMember(ms, key, json) ==
    IF \E i \in 1..Len(ms) : ms[i].key = key
    THEN [i \in 1..Len(ms) |-> IF ms[i].key = key THEN [key |-> key, json |-> json] ELSE ms[i]]
    ELSE Append(ms, [key |-> key, json |-> json])

\* The members in the order Object.keys lists them.
KeyOrder(ms) ==
    LET idx == SelectSeq(ms, LAMBDA m : IsIndex(m.key))
        below(m) == Cardinality({j \in 1..Len(idx) :
                        BigCmp(FromDigits(idx[j].key), FromDigits(m.key)) < 0})
    IN  [r \in 1..Len(idx) |-> idx[CHOOSE j \in 1..Len(idx) : below(idx[j]) = r - 1]]
        \o SelectSeq(ms, LAMBDA m : ~IsIndex(m.key))

\* "key":value, ... for the members lo..hi.
RECURSIVE MembersText(_, _, _)
MembersText(ms, lo, hi) ==
    IF lo > hi THEN <<>>
    ELSE IF lo = hi THEN Quote(ms[lo].key) \o Text(":") \o ms[lo].json
    ELSE LET mid == (lo + hi) \div 2
         IN  MembersText(ms, lo, mid) \o Text(",") \o MembersText(ms, mid + 1, hi)

\* JSON.stringify of the object with the members ms.
ObjectText(ms) == Text("{") \o MembersText(KeyOrder(ms), 1, Len(ms)) \o Text("}")

\* JSON.parse reads a text with a stack of the objects and arrays it is
\* inside of.  One entry of the stack, for an object or array that is open:
\* key is the key of the member being read, ms are the members set so far,
\* event and data the values of those keys so far; json is the text of the
\* elements read so far and joined what join() makes of them (TypeErrorKey
\* when join() throws, String() throwing for an element).
Opening(kind) ==
    [kind |-> kind, key |-> <<>>, ms |-> <<>>, event |-> Undefined,
     data |-> Undefined, json |-> <<>>, joined |-> <<>>]

\* The reading, st: i is the place reached; at tells what comes there: a
\* value, the key of a member, or what is behind the value v that was just
\* read (event and data being its properties of those names); stack are the
\* objects and arrays that are open, the innermost last; done when the
\* outermost value is read or the text is found wrong (ok = FALSE).  At
\* position i0 nothing is read yet.
Started(i0) ==
    [i |-> i0, at |-> "value", stack |-> <<>>, v |-> Undefined,
     event |-> Undefined, data |-> Undefined, ok |-> TRUE, done |-> FALSE]

Failed(st) == [st EXCEPT !.ok = FALSE, !.done = TRUE]

\* A value is read: r is its reading.
Valued(st, r) ==
    IF ~r.ok THEN Failed(st)
    ELSE [st EXCEPT !.i = r.next, !.at = "behind", !.v = r.v,
                    !.event = r.event, !.data = r.data]

\* An opening brace or bracket at place i: the object or array is empty, the
\* value empty, when the closing one follows; otherwise its first member or
\* element follows.
Opened(st, str, i, kind, closing, empty) ==
    LET j == SkipWs(str, i + 1)
    IN  IF At(str, j) = closing
        THEN Valued(st, POk(empty, Undefined, Undefined, j + 1))
        ELSE [st EXCEPT !.i = i + 1,
                        !.at = IF kind = "object" THEN "key" ELSE "value",
                        !.stack = Append(@, Opening(kind))]

\* A value is to come.
ValueStep(st, str) ==
    LET i == SkipWs(str, st.i)
        c == At(str, i)
    IN  CASE c = Code("{") -> Opened(st, str, i, "object", Code("}"), Obj(Text("{}"), FALSE))
          [] c = Code("[") -> Opened(st, str, i, "array", Code("]"), Arr(Text("[]"), <<>>))
          [] c = Code("\"") -> Valued(st, ScanString(str, i + 1))
          [] c = Code("t") -> Valued(st, ScanLiteral(str, i, Text("true"), Bool(Text("true"))))
          [] c = Code("f") -> Valued(st, ScanLiteral(str, i, Text("false"), Bool(Text("false"))))
          [] c = Code("n") -> Valued(st, ScanLiteral(str, i, Text("null"), Null))
          [] c = Code("-") \/ c \in Digits -> Valued(st, ScanNumber(str, i))
          [] OTHER -> Failed(st)

\* The member key is read: the colon behind it, and the value is to come.
MemberKeyed(st, str, key) ==
    IF ~key.ok THEN Failed(st)
    ELSE LET c == SkipWs(str, key.next)
         IN  IF At(str, c) # Code(":") THEN Failed(st)
             ELSE [st EXCEPT !.i = c + 1, !.at = "value",
                             !.stack[Len(st.stack)].key = key.v.s]

\* The key of a member is to come.
KeyStep(st, str) ==
    LET i == SkipWs(str, st.i)
    IN  IF At(str, i) # Code("\"") THEN Failed(st)
        ELSE MemberKeyed(st, str, ScanString(str, i + 1))

\* The value v becomes the member key of the open object f, or the next
\* element of the open array f.
Attached(f, v) ==
    IF f.kind = "object"
    THEN [f EXCEPT !.ms = SetMember(@, f.key, JSONStringify(v)),
                   !.event = IF f.key = Text("event") THEN v ELSE @,
                   !.data = IF f.key = Text("data") THEN v ELSE @]
    ELSE LET sep == IF f.json = <<>> THEN <<>> ELSE Text(",")
         IN  [f EXCEPT !.json = @ \o sep \o JSONStringify(v),
                       !.joined = IF TypeErrorKey \in {@, JoinKey(v)} THEN TypeErrorKey
                                  ELSE @ \o sep \o JoinKey(v)]

\* The object read has a member toString of its own.
OwnToString(ms) == \E i \in 1..Len(ms) : ms[i].key = Text("toString")

\* The innermost open object or array, now f, ends at place j: it is the
\* value read, all of its members or elements set.
Closed(st, f, j) ==
    [st EXCEPT !.i = j + 1, !.stack = SubSeq(@, 1, Len(@) - 1),
               !.v = IF f.kind = "object"
                     THEN Obj(ObjectText(f.ms), OwnToString(f.ms))
                     ELSE Arr(Text("[") \o f.json \o Text("]"), f.joined),
               !.event = f.event, !.data = f.data]

\* Behind a value: the text's value is read when nothing is open; otherwise
\* the value goes into the innermost open object or array, and a comma or
\* the closing brace or bracket follows.
BehindStep(st, str) ==
    IF st.stack = <<>> THEN [st EXCEPT !.done = TRUE]
    ELSE LET f == Attached(st.stack[Len(st.stack)], st.v)
             j == SkipWs(str, st.i)
             c == At(str, j)
         IN  IF c = Code(",")
             THEN [st EXCEPT !.i = j + 1,
                             !.at = IF f.kind = "object" THEN "key" ELSE "value",
                             !.stack[Len(st.stack)] = f]
             ELSE IF c = (IF f.kind = "object" THEN Code("}") ELSE Code("]"))
                  THEN Closed(st, f, j)
             ELSE Failed(st)

\* One step of the reading.
Step(st, str) ==
    CASE st.at = "value" -> ValueStep(st, str)
      [] st.at = "key" -> KeyStep(st, str)
      [] st.at = "behind" -> BehindStep(st, str)

\* Up to n steps, one after the other.
RECURSIVE Steps(_, _, _)
Steps(st, str, n) ==
    IF st.done THEN st
    ELSE IF n <= 1 THEN Step(st, str)
    ELSE LET first == Steps(st, str, n \div 2)
         IN  After(first, Steps(first, str, n - (n \div 2)))

\* What the reading came to.
ParseEnd(st) ==
    IF st.ok /\ st.done THEN POk(st.v, st.event, st.data, st.i) ELSE PFail

\* The JSON value at position i0.  Each step but the last one passes a
\* character at least, so the steps are no more than the characters left
\* and one.
ParseValue(str, i0) == ParseEnd(Steps(Started(i0), str, Len(str) - i0 + 2))

\* The whole text is one value: only whitespace may follow it.
ParseFinished(text, r) ==
    IF r.ok /\ SkipWs(text, r.next) = Len(text) + 1 THEN r ELSE PFail

\* JSON.parse(text): ok = FALSE is the SyntaxError; otherwise v is the value
\* and event, data are its properties of those names (undefined when the
\* value has none).
JSONParse(text) == ParseFinished(text, ParseValue(text, 1))

---------------------------------------------------------------------------
(* The schema, the validators (zod) and the inputs of the model *)

\* The schema the WsSchema instance is constructed with: event name ->
\* z.object({}), z.string(), z.number(), z.boolean().
TheSchema ==
    (Text("heartbeat") :> "object") @@ (Text("message") :> "string")
        @@ (Text("count") :> "number") @@ (Text("flag") :> "boolean")

\* validator.parse(v) succeeds (otherwise it throws a ZodError).
ZodAccepts(validator, v) ==
    CASE validator = "string" -> v.t = "string"
      [] validator = "number" -> v.t = "number" /\ v.s # Text("NaN")
      [] validator = "boolean" -> v.t = "boolean"
      [] validator = "object" -> v.t = "object"
      [] OTHER -> FALSE

\* What validator.parse(v) returns for an accepted v: z.object({}) strips
\* the keys it does not declare.
ZodOutput(validator, v) ==
    IF validator = "object" THEN Obj(Text("{}"), FALSE) ELSE v

\* Properties every object inherits from Object.prototype.
ObjectPrototypeKeys ==
    {Text(name) : name \in
        {"constructor", "toString", "valueOf", "hasOwnProperty", "isPrototypeOf",
         "propertyIsEnumerable", "toLocaleString", "__proto__",
         "__defineGetter__", "__defineSetter__", "__lookupGetter__", "__lookupSetter__"}}

\* this.validators[key]: the validator of an own key, an inherited property
\* (truthy, with no parse method), or undefined.
ValidatorLookup(vs, key) ==
    IF key \in DOMAIN vs THEN vs[key]
    ELSE IF key \in ObjectPrototypeKeys THEN "inherited"
    ELSE "undefined"

\* The four callbacks of config.errors.
Hooks ==
    {"onPayloadIsNonJSON", "onMalformedJSON", "onUnrecognisedEvent", "onInvalidPayload"}

\* What a callback supplied by the caller may throw.
ExceptionKinds == {"SyntaxError", "ZodError", "Error"}

\* One call's misbehaving callback, if any: a hook, or the handler.
NoFault == [cb |-> "none", kind |-> "none"]
Faults ==
    {NoFault} \cup [cb : Hooks \cup {"handler"}, kind : ExceptionKinds]

Throws(fault, cb) == IF fault.cb = cb THEN fault.kind ELSE "none"

\* The handler tables given to receiver(on, config): on is Partial<...>, so
\* what a key holds is a function or undefined.  The keys are events of the
\* schema and one name the schema does not know.
HandlerTables ==
    LET functions(keys) == [k \in keys |-> "function"]
    IN  {functions(keys) : keys \in
            {{}, {Text("message")}, {Text("count")}, {Text("flag")}, {Text("heartbeat")},
             {Text("ghost")}, DOMAIN TheSchema, DOMAIN TheSchema \cup {Text("ghost")}}}
        \cup {Text("message") :> "undefined",
              (Text("message") :> "undefined") @@ (Text("count") :> "function")}

\* Payloads handed to send(event).data(payload).
\* Among them a string of a line feed and a quote, and one of U+0060,
\* U+20AC, a surrogate pair and a surrogate without its other half.
SendValues ==
    {Str(Text("hi")), Str(<<>>), Str(Text("a") \o <<10>> \o Text("b\"c")),
     Str(<<96, 8364, 55357, 56832, 55357>>),
     Num(Text("0")), Num(Text("1")), Bool(Text("false")), Bool(Text("true")),
     Obj(Text("{}"), FALSE), Obj(Text("{\"extra\":1}"), FALSE), Null, Undefined,
     Num(Text("NaN"))}

\* Payloads of the envelopes handed to emit().
EmitValues == {Str(Text("hi")), Num(Text("0")), Obj(Text("{\"extra\":1}"), FALSE), Undefined}

---------------------------------------------------------------------------
(* The sender *)

\* send(event).data(data).stringify(): JSON.stringify({event, data}); a
\* property whose value is undefined is left out.
Stringify(event, data) ==
    Text("{\"event\":") \o Quote(event)
        \o (IF data.t = "undefined" THEN <<>> ELSE Text(",\"data\":") \o JSONStringify(data))
        \o Text("}")

\* The text emit hands to socket.send.
EmitText(eventID, data) ==
    Text("{\"event\":") \o Quote(eventID)
        \o (IF data.t = "undefined" THEN <<>> ELSE Text(",\"data\":") \o JSONStringify(data))
        \o Text("}")

Range(seq) == {seq[i] : i \in 1..Len(seq)}

\* A sender that keeps the array as it is given, repeats included.
DedupKeepingRepeats(seq) == seq

\* new Set(array) iterated: the elements in the order of their first
\* occurrence, each once.
RECURSIVE Dedup(_)
Dedup(seq) ==
    IF seq = <<>> THEN <<>>
    ELSE LET front == Dedup(SubSeq(seq, 1, Len(seq) - 1))
             last == seq[Len(seq)]
         IN  IF last \in Range(front) THEN front ELSE Append(front, last)

\* One record of the log: a callback invoked (a hook, the handler, a
\* validator's parse, a socket's send) with what it was given and what it
\* threw.
Entry(cb, key, raw, json, event, payload, threw) ==
    [cb |-> cb, key |-> key, raw |-> raw, json |-> json, event |-> event,
     payload |-> payload, threw |-> threw]

\* WsSchema.emit: sockets.forEach(socket => socket.send(text)); a send that
\* throws ends the loop.
RECURSIVE SendAll(_, _, _, _)
SendAll(sockets, text, sendFault, st) ==
    IF sockets = <<>> \/ st.exc # "none" THEN st
    ELSE LET threw == IF Head(sockets) = sendFault THEN "Error" ELSE "none"
         IN  SendAll(Tail(sockets), text, sendFault,
                     [log |-> Append(st.log, Entry("send", Head(sockets), text,
                                                   Undefined, Undefined, Undefined, threw)),
                      exc |-> threw, ret |-> FALSE])

\* to is one socket (isArray = FALSE, socks of length 1) or an array.
EmitRun(eventID, data, isArray, socks, sendFault) ==
    LET sockets == Dedup(IF isArray THEN socks ELSE <<socks[1]>>)
    IN  SendAll(sockets, EmitText(eventID, data), sendFault,
                [log |-> <<>>, exc |-> "none", ret |-> FALSE])

---------------------------------------------------------------------------
(* The inbound strings and endpoints of the model *)

\* JSON texts put in the event field and in the data field of a message.
EventTexts ==
    {Text(t) : t \in
        {"\"message\"", "\"count\"", "\"flag\"", "\"heartbeat\"", "\"ghost\"",
         "\"constructor\"", "\"\"", "0", "7", "[\"message\"]", "null",
         "{\"toString\":1}", "[{\"toString\":1}]"}}
SchemaEventTexts ==
    {Text(t) : t \in {"\"message\"", "\"count\"", "\"flag\"", "\"heartbeat\""}}
DataTexts ==
    {Text(t) : t \in
        {"\"hi\"", "\"\"", "0", "1", "false", "true", "null", "{}", "{\"extra\":1}", "[]"}}

\* {"event":e,"data":d}
EnvelopeText(e, d) == Text("{\"event\":") \o e \o Text(",\"data\":") \o d \o Text("}")

\* Among them messages with white space, members in another order, escapes
\* in strings, a key written twice, numbers that are not written as
\* String() writes them, and strings with code units from U+0060 on,
\* written as they are and as escapes.
EnvelopeTexts ==
    {EnvelopeText(e, d) : e \in SchemaEventTexts, d \in DataTexts}
    \cup {EnvelopeText(e, d) : e \in EventTexts \ SchemaEventTexts,
                               d \in {Text("\"hi\""), Text("0")}}
    \cup {Text("{\"event\":") \o e \o Text("}") : e \in {Text("\"message\""), Text("\"ghost\"")}}
    \cup {Text(t) : t \in
            {"{\"data\":\"hi\"}", "{}",
             "{ \"event\" : \"message\" , \"data\" : \"hi\" }",
             "{\"data\":1,\"event\":\"count\",\"id\":7}",
             "{\"event\":\"mess\\u0061ge\",\"data\":\"a\\nb\"}",
             "{\"event\":\"ghost\",\"event\":\"message\",\"data\":\"hi\"}",
             "{\"event\":\"count\",\"data\":1.5}",
             "{\"event\":\"count\",\"data\":-0}",
             "{\"event\":\"count\",\"data\":9007199254740993}",
             "{\"event\":\"heartbeat\",\"data\":{\"b\":1,\"1\":2,\"b\":3}}",
             "{\"event\":\"message\",\"data\":\"\\u0060\\u20ac\\ud83d\"}"}}
    \cup {EnvelopeText(Text("\"message\""), <<34, 96, 8364, 55357, 56832, 34>>)}

\* JSON texts that are not objects.
NonObjectTexts == {Text(t) : t \in {"null", "5", "0", "\"message\"", "[]", "true"}}

\* Strings JSON.parse rejects; the last holds a form feed in a string.
NonJsonTexts ==
    {Text(t) : t \in
        {"not json", "", "undefined", "{\"event\":\"message\",\"data\":",
         "{\"event\":\"message\",\"data\":\"hi\",}", "{'event':'message','data':'hi'}"}}
    \cup {EnvelopeText(Text("\"message\""), <<34, 97, 12, 98, 34>>)}

InboundTexts ==
    EnvelopeTexts \cup NonObjectTexts \cup NonJsonTexts
        \cup {Stringify(e, d) : e \in DOMAIN TheSchema, d \in SendValues}

\* The receivers and the inbound strings of the runs that mix both sides of
\* the instance.
SequenceReceivers ==
    {[on |-> (Text("message") :> "function") @@ (Text("count") :> "undefined"),
      errors |-> Hooks],
     [on |-> Text("count") :> "function", errors |-> {"onInvalidPayload"}],
     [on |-> <<>>, errors |-> {}]}
SequenceTexts ==
    {Text(t) : t \in
        {"{\"event\":\"message\",\"data\":\"hi\"}", "{\"event\":\"message\",\"data\":5}",
         "{\"event\":\"count\",\"data\":1}", "{}", "not json"}}
\* The transport endpoints.
Sockets == {"a", "b", "c"}

\* The longest array of endpoints handed to .to(...).
MaxEndpoints == 3

\* The most receivers built on one instance.
MaxReceivers == 2

RECURSIVE SeqsUpTo(_, _)
SeqsUpTo(S, n) ==
    IF n = 0 THEN {<<>>}
    ELSE LET shorter == SeqsUpTo(S, n - 1)
         IN  shorter \cup {Append(q, x) : q \in {r \in shorter : Len(r) = n - 1}, x \in S}

\* What .to(...) is given: an array of endpoints, or one endpoint.
ToArguments ==
    [isArray : {TRUE}, socks : SeqsUpTo(Sockets, MaxEndpoints)]
        \cup [isArray : {FALSE}, socks : {<<x>> : x \in Sockets}]

---------------------------------------------------------------------------
(* The receiver: the callback receiver(on, config) returns.  A run is      *)
(* [log, exc, ret]: the callbacks invoked so far, the exception in flight  *)
(* ("none" when there is none) and whether the callback has returned.      *)

Start == [log |-> <<>>, exc |-> "none", ret |-> FALSE]

Invoke(st, cb, key, raw, json, event, payload, threw) ==
    [log |-> Append(st.log, Entry(cb, key, raw, json, event, payload, threw)),
     exc |-> threw, ret |-> st.ret]

\* config.errors?.hook?.(...): nothing happens when the hook is not given.
InvokeHook(st, hooks, fault, hook, raw, json, event, payload) ==
    IF hook \in hooks
    THEN Invoke(st, hook, <<>>, raw, json, event, payload, Throws(fault, hook))
    ELSE st

\* if (!json.event || !json.data || typeof json.event !== "string")
\*     config.errors?.onMalformedJSON?.(json)
ShapeCheck(st, hooks, fault, p) ==
    IF Falsy(p.event) \/ Falsy(p.data) \/ TypeOf(p.event) # "string"
    THEN InvokeHook(st, hooks, fault, "onMalformedJSON", <<>>, p.v, Undefined, Undefined)
    ELSE st

\* if (!this.validators[json.event])
\*     config.errors?.onUnrecognisedEvent?.({event: json.event, payload: json.data})
\* json.event is turned into a property key, which throws a TypeError when
\* String(json.event) does.
Recognise(st, vs, hooks, fault, p) ==
    IF st.exc # "none" THEN st
    ELSE IF p.event.k = TypeErrorKey THEN [st EXCEPT !.exc = "TypeError"]
    ELSE IF ValidatorLookup(vs, p.event.k) = "undefined"
    THEN InvokeHook(st, hooks, fault, "onUnrecognisedEvent", <<>>, Undefined, p.event, p.data)
    ELSE st

\* Object.keys(on).includes(json.event)
HasHandler(handlers, event) == event.t = "string" /\ event.s \in DOMAIN handlers

\* if (!Object.keys(on).includes(json.event)) return
HandlerPresence(st, handlers, p) ==
    IF st.exc # "none" THEN st
    ELSE IF ~HasHandler(handlers, p.event) THEN [st EXCEPT !.ret = TRUE]
    ELSE st

\* try { this.validators[json.event]!.parse(json.data) }
\* catch (e) { if (e instanceof ZodError) config.errors?.onInvalidPayload?.(...)
\*             else throw e }
Validate(st, vs, hooks, fault, p) ==
    IF st.exc # "none" \/ st.ret THEN st
    ELSE LET validator == ValidatorLookup(vs, p.event.k)
         IN  IF validator \in {"undefined", "inherited"}
             THEN [st EXCEPT !.exc = "TypeError"]
             ELSE IF ZodAccepts(validator, p.data)
             THEN Invoke(st, "parse", p.event.s, <<>>, Undefined, p.event, p.data, "none")
             ELSE InvokeHook(
                      [Invoke(st, "parse", p.event.s, <<>>, Undefined, p.event, p.data,
                              "ZodError") EXCEPT !.exc = "none"],
                      hooks, fault, "onInvalidPayload", <<>>, Undefined, p.event, p.data)

\* on[json.event]?.(json.data): nothing is called when the key holds
\* undefined.
Dispatch(st, handlers, fault, p) ==
    IF st.exc # "none" \/ st.ret THEN st
    ELSE IF HasHandler(handlers, p.event) /\ handlers[p.event.s] = "function"
    THEN Invoke(st, "handler", p.event.s, <<>>, Undefined, p.event, p.data,
                Throws(fault, "handler"))
    ELSE st

\* The body of the outer try: JSON.parse, whose outcome is p, then the
\* stages in order.  Reading a property of null throws a TypeError.
TryBlock(vs, handlers, hooks, fault, p) ==
    IF ~p.ok THEN [Start EXCEPT !.exc = "SyntaxError"]
    ELSE IF p.v.t = "null" THEN [Start EXCEPT !.exc = "TypeError"]
    ELSE Dispatch(
             Validate(
                 HandlerPresence(
                     Recognise(ShapeCheck(Start, hooks, fault, p), vs, hooks, fault, p),
                     handlers, p),
                 vs, hooks, fault, p),
             handlers, fault, p)

\* A catch that reports a string that is not JSON through the hook of the
\* shape check.
OuterCatchSharedHook(st, hooks, fault, text) ==
    IF st.exc = "SyntaxError"
    THEN InvokeHook([st EXCEPT !.exc = "none"], hooks, fault, "onMalformedJSON",
                    text, Undefined, Undefined, Undefined)
    ELSE st

\* catch (e) { if (e instanceof SyntaxError)
\*                 config.errors?.onPayloadIsNonJSON?.(incomingMessageString)
\*             else throw e }
OuterCatch(st, hooks, fault, text) ==
    IF st.exc = "SyntaxError"
    THEN InvokeHook([st EXCEPT !.exc = "none"], hooks, fault, "onPayloadIsNonJSON",
                    text, Undefined, Undefined, Undefined)
    ELSE st

\* One call of the receiver on one inbound string, p being what JSON.parse
\* makes of it.
ReceiverRun(vs, handlers, hooks, text, fault, p) ==
    OuterCatch(TryBlock(vs, handlers, hooks, fault, p), hooks, fault, text)

\* One call of the receiver on one inbound string.
ReceiverCall(vs, handlers, hooks, text, fault) ==
    ReceiverRun(vs, handlers, hooks, text, fault, JSONParse(text))

---------------------------------------------------------------------------
(* The state machine *)

VARIABLES
    validators,  \* this.validators: the schema
    receivers,   \* the callbacks receiver(on, config) has returned, in the
                 \* order they were built: each holds its on and config.errors
    pc,          \* "idle", or "done" right after a call has completed
    op,          \* the call that has completed
    input,       \* what it was given
    json,        \* the receiver's json: what JSON.parse made of its string
    log,         \* the callbacks it invoked, in order
    outcome,     \* "returned", or the exception it threw
    result,      \* the value it returned
    past,        \* the sides of this instance that completed a call earlier
    first        \* the receiver call that was the first call of the instance,
                 \* as SpecSequence remembers it

vars == <<validators, receivers, pc, op, input, json, log, outcome, result, past, first>>

NoInput ==
    [receiver |-> 0, text |-> <<>>, fault |-> NoFault, event |-> <<>>,
     data |-> Undefined, isArray |-> FALSE, socks |-> <<>>]

\* No call is remembered.
NoCall ==
    [receiver |-> 0, text |-> <<>>, fault |-> NoFault, log |-> <<>>,
     outcome |-> "none", result |-> Undefined]

Init ==
    /\ validators = TheSchema
    /\ receivers = <<>>
    /\ pc = "idle"
    /\ op = "none"
    /\ input = NoInput
    /\ json = PFail
    /\ log = <<>>
    /\ outcome = "none"
    /\ result = Undefined
    /\ past = {}
    /\ first = NoCall

\* The object send(event).data(data).object() returns.
Envelope(event, data) == [event |-> Str(event), data |-> data]

\* wsSchema.receiver(handlers, {errors: hooks}): a new callback that holds
\* the two tables; the callbacks built before stay as they are.
Receiver(handlers, hooks) ==
    /\ pc = "idle"
    /\ Len(receivers) < MaxReceivers
    /\ receivers' = Append(receivers, [on |-> handlers, errors |-> hooks])
    /\ UNCHANGED <<validators, pc, op, input, json, log, outcome, result, past, first>>

\* A receiver that forgets a handler once it has dispatched to it.
ReceiveConsumingHandler(r, text, p, fault) ==
    /\ pc = "idle"
    /\ r \in 1..Len(receivers)
    /\ json' = p
    /\ \E run \in {ReceiverRun(validators, receivers[r].on, receivers[r].errors,
                               text, fault, p)} :
           /\ log' = run.log
           /\ outcome' = IF run.exc = "none" THEN "returned" ELSE run.exc
           /\ \E called \in {{run.log[i].key : i \in {j \in 1..Len(run.log) :
                                                        run.log[j].cb = "handler"}}} :
                  receivers' = [receivers EXCEPT ![r].on =
                                    [k \in DOMAIN receivers[r].on \ called |->
                                        receivers[r].on[k]]]
    /\ pc' = "done"
    /\ op' = "receive"
    /\ input' = [NoInput EXCEPT !.receiver = r, !.text = text, !.fault = fault]
    /\ result' = Undefined
    /\ UNCHANGED <<validators, past>>

\* The r-th callback receiver() returned, called on one inbound string; p
\* is what JSON.parse makes of the string, fault the callback of the caller
\* that throws, if any.
Receive(r, text, p, fault) ==
    /\ pc = "idle"
    /\ r \in 1..Len(receivers)
    /\ json' = p
    /\ \E run \in {ReceiverRun(validators, receivers[r].on, receivers[r].errors,
                               text, fault, p)} :
           /\ log' = run.log
           /\ outcome' = IF run.exc = "none" THEN "returned" ELSE run.exc
    /\ pc' = "done"
    /\ op' = "receive"
    /\ input' = [NoInput EXCEPT !.receiver = r, !.text = text, !.fault = fault]
    /\ result' = Undefined
    /\ UNCHANGED <<validators, receivers, past>>

\* wsSchema.send(event).data(data).object()
ObjectCall(event, data) ==
    /\ pc = "idle"
    /\ pc' = "done"
    /\ op' = "object"
    /\ input' = [NoInput EXCEPT !.event = event, !.data = data]
    /\ log' = <<>>
    /\ outcome' = "returned"
    /\ result' = Envelope(event, data)
    /\ UNCHANGED <<validators, receivers, json, past, first>>

\* wsSchema.send(event).data(data).stringify()
StringifyCall(event, data) ==
    /\ pc = "idle"
    /\ pc' = "done"
    /\ op' = "stringify"
    /\ input' = [NoInput EXCEPT !.event = event, !.data = data]
    /\ log' = <<>>
    /\ outcome' = "returned"
    /\ result' = Str(Stringify(event, data))
    /\ UNCHANGED <<validators, receivers, json, past, first>>

\* wsSchema.send(event).data(data).to(to).emit(); the send of endpoint
\* sendFault, if any, throws.
Emit(event, data, to, sendFault) ==
    /\ pc = "idle"
    /\ LET run == EmitRun(event, data, to.isArray, to.socks, sendFault)
       IN  /\ log' = run.log
           /\ outcome' = IF run.exc = "none" THEN "returned" ELSE run.exc
    /\ pc' = "done"
    /\ op' = "emit"
    /\ input' = [NoInput EXCEPT !.event = event, !.data = data,
                                !.isArray = to.isArray, !.socks = to.socks]
    /\ result' = Undefined
    /\ UNCHANGED <<validators, receivers, json, past, first>>

\* The caller goes on to its next call.
NextTurn ==
    /\ pc = "done"
    /\ pc' = "idle"
    /\ op' = "none"
    /\ input' = NoInput
    /\ json' = PFail
    /\ log' = <<>>
    /\ outcome' = "none"
    /\ result' = Undefined
    /\ past' = past \cup {IF op = "receive" THEN "receiver" ELSE "sender"}
    /\ UNCHANGED <<validators, receivers, first>>

\* The call that has completed: what it was given and what came of it.
Call ==
    [receiver |-> input.receiver, text |-> input.text, fault |-> input.fault,
     log |-> log, outcome |-> outcome, result |-> result]

\* The call this step makes is remembered when no call was made on the
\* instance before it.
Remembered == first' = IF past = {} THEN Call' ELSE first

\* Calls are made one at a time, from the caller's idle position.  The
\* receiving side: one receiver of the instance, with any handler table and
\* any hooks, called on any inbound string.
NextReceive ==
    \/ /\ pc = "idle" /\ receivers = <<>>
       /\ \E handlers \in HandlerTables, hooks \in SUBSET Hooks : Receiver(handlers, hooks)
    \/ /\ pc = "idle"
       /\ \E r \in 1..Len(receivers), text \in InboundTexts :
              \E p \in {JSONParse(text)} : \E fault \in Faults :
                  Receive(r, text, p, fault) /\ UNCHANGED first
    \/ NextTurn

NextSend ==
    \/ /\ pc = "idle"
       /\ \E event \in DOMAIN TheSchema, data \in SendValues : ObjectCall(event, data)
    \/ /\ pc = "idle"
       /\ \E event \in DOMAIN TheSchema, data \in SendValues : StringifyCall(event, data)
    \/ /\ pc = "idle"
       /\ \E event \in DOMAIN TheSchema, data \in EmitValues, to \in ToArguments,
             sendFault \in Sockets \cup {"none"} : Emit(event, data, to, sendFault)
    \/ NextTurn

Next == NextReceive \/ NextSend

\* Both sides of one instance in any order: up to MaxReceivers receivers
\* are built, one after the other, and any of them is called, with no
\* callback throwing, its handler throwing or its onMalformedJSON hook
\* throwing; emit() is kept to one payload, one endpoint at a time and
\* sends that return.
NextSequence ==
    \/ /\ pc = "idle"
       /\ \E made \in SequenceReceivers : Receiver(made.on, made.errors)
    \/ /\ pc = "idle"
       /\ \E r \in 1..Len(receivers), text \in SequenceTexts :
              \E p \in {JSONParse(text)} :
                  \E fault \in {NoFault, [cb |-> "handler", kind |-> "Error"],
                                 [cb |-> "onMalformedJSON", kind |-> "SyntaxError"]} :
                      Receive(r, text, p, fault) /\ Remembered
    \/ /\ pc = "idle"
       /\ \E event \in DOMAIN TheSchema, data \in EmitValues : ObjectCall(event, data)
    \/ /\ pc = "idle"
       /\ \E event \in DOMAIN TheSchema, data \in EmitValues : StringifyCall(event, data)
    \/ /\ pc = "idle"
       /\ \E event \in DOMAIN TheSchema, to \in {t \in ToArguments : ~t.isArray} :
             Emit(event, Str(Text("hi")), to, "none")
    \/ NextTurn

\* The receiving side alone, the sending side alone, and both.
SpecReceive == Init /\ [][NextReceive]_vars
SpecSend == Init /\ [][NextSend]_vars
Spec == Init /\ [][Next]_vars
SpecSequence == Init /\ [][NextSequence]_vars
---------------------------------------------------------------------------
(* Vocabulary of the properties *)

\* A receiver call has just completed.
Received == pc = "done" /\ op = "receive"

\* The inbound string of that call, decoded.
Msg == json

\* The handler table and the hooks of the receiver that was called.
on == receivers[input.receiver].on
errors == receivers[input.receiver].errors

\* The handler table holds a function for the event.
Registered(event) == event \in DOMAIN on /\ on[event] = "function"

\* The invocations in the log of the callbacks named.
Calls(cbs) == SelectSeq(log, LAMBDA e : e.cb \in cbs)
HookCalls == Calls(Hooks)
HandlerCalls == Calls({"handler"})

\* Every hook and handler the call invoked returned normally.
CallbacksReturned ==
    \A i \in 1..Len(log) : log[i].cb \in Hooks \cup {"handler"} => log[i].threw = "none"

\* The shape the specification asks of a message: an object with a
\* string-valued event field and a data field, whatever its value.
WellShaped(m) ==
    m.ok /\ m.v.t = "object" /\ m.event.t = "string" /\ m.data.t # "undefined"

\* A well-shaped message whose event is a key of the schema.
SchemaMessage(m) == WellShaped(m) /\ m.event.s \in DOMAIN validators

---------------------------------------------------------------------------
(* The properties *)

\* C1 (as claimed): when the validator of the message's event rejects its
\* payload, the receiver invokes no handler, and the onInvalidPayload hook,
\* if configured, is invoked exactly once with that event and payload.
\* Stated for the calls whose callbacks return and whose payload is not a
\* falsy value.
C1_ValidatorGating ==
    (/\ Received
     /\ CallbacksReturned
     /\ SchemaMessage(Msg)
     /\ Msg.event.s \in DOMAIN on
     /\ ~Falsy(Msg.data)
     /\ ~ZodAccepts(validators[Msg.event.s], Msg.data))
    => /\ HandlerCalls = <<>>
       /\ "onInvalidPayload" \in errors
            => /\ Len(Calls({"onInvalidPayload"})) = 1
               /\ Calls({"onInvalidPayload"})[1].event = Msg.event
               /\ Calls({"onInvalidPayload"})[1].payload = Msg.data

\* The message carries a data field whose value JavaScript treats as false.
FalsyData(m) == m.ok /\ m.data.t # "undefined" /\ Falsy(m.data)

\* C2 (as claimed): a receiver call invokes at most one error hook, and
\* nothing after it: no later stage runs and no handler is invoked.  Stated
\* for the calls whose callbacks return and whose message holds no falsy
\* data, where the cases of C3 and C5 play no part.
C2_FailureIsTerminal ==
    (Received /\ CallbacksReturned /\ ~FalsyData(Msg))
    => /\ Len(HookCalls) <= 1
       /\ \A i \in 1..Len(log) : log[i].cb \in Hooks => i = Len(log)

\* C3 (as claimed): a message for a schema event whose data is 0, false or
\* the empty string is not reported through onMalformedJSON, and when the
\* validator accepts the value and the event has a handler, the handler is
\* invoked with it.
C3_FalsyDataIsWellShaped ==
    (/\ Received
     /\ SchemaMessage(Msg)
     /\ Msg.data \in {Num(Text("0")), Bool(Text("false")), Str(<<>>)})
    => /\ Calls({"onMalformedJSON"}) = <<>>
       /\ (ZodAccepts(validators[Msg.event.s], Msg.data) /\ Registered(Msg.event.s))
            => \E i \in 1..Len(log) :
                  /\ log[i].cb = "handler"
                  /\ log[i].key = Msg.event.s
                  /\ log[i].payload = Msg.data

\* C4 (as claimed): whatever the inbound string and whichever hooks are
\* configured, a receiver call whose hooks and handler do not throw returns
\* normally.
C4_NoExceptionEscapes ==
    (Received /\ CallbacksReturned) => outcome = "returned"

\* C5 (as claimed): an exception thrown by the handler or by a hook reaches
\* the caller as it is, and the receiver invokes no hook after it.
C5_CallbackFailurePropagates ==
    Received
    => \A i \in 1..Len(log) :
          (log[i].cb \in Hooks \cup {"handler"} /\ log[i].threw # "none")
          => outcome = log[i].threw /\ i = Len(log)

\* C6: for an inbound string that is not JSON text the receiver invokes the
\* onPayloadIsNonJSON hook once with the raw string when that hook is
\* configured, invokes nothing else (no other hook, no validator, no
\* handler), and returns normally unless that hook itself throws.
C6_MalformedJsonContainment ==
    (Received /\ ~Msg.ok)
    => /\ Len(log) = (IF "onPayloadIsNonJSON" \in errors THEN 1 ELSE 0)
       /\ \A i \in 1..Len(log) :
             log[i].cb = "onPayloadIsNonJSON" /\ log[i].raw = input.text
       /\ CallbacksReturned => outcome = "returned"

\* C6 happens: a string that is not JSON met a receiver holding all four
\* hooks, and only onPayloadIsNonJSON was invoked, with the string.
C6_Witness ==
    /\ Received
    /\ ~Msg.ok
    /\ errors = Hooks
    /\ Len(log) = 1
    /\ log[1].cb = "onPayloadIsNonJSON"
    /\ log[1].raw = input.text
    /\ outcome = "returned"

\* C7 (as claimed): for a well-shaped message whose event is not a key of
\* the schema, whatever the handler table holds, no handler is invoked and
\* no validator runs, onUnrecognisedEvent (if configured) is invoked
\* exactly once with the event name, no other hook is invoked, and a
\* receiver without hooks returns normally.  Stated for the calls whose
\* callbacks return and whose message holds no falsy event or data.
C7_UnknownEventIsolation ==
    (/\ Received
     /\ CallbacksReturned
     /\ WellShaped(Msg)
     /\ ~Falsy(Msg.event)
     /\ ~Falsy(Msg.data)
     /\ Msg.event.s \notin DOMAIN validators)
    => /\ HandlerCalls = <<>>
       /\ Calls({"parse"}) = <<>>
       /\ "onUnrecognisedEvent" \in errors
            => /\ Len(Calls({"onUnrecognisedEvent"})) = 1
               /\ Calls({"onUnrecognisedEvent"})[1].event = Msg.event
       /\ Calls(Hooks \ {"onUnrecognisedEvent"}) = <<>>
       /\ errors = {} => outcome = "returned"

\* C8 (as claimed): a well-shaped message for a schema event that has no
\* entry in the handler table invokes no hook and no handler.
C8_SilentIgnore ==
    (/\ Received
     /\ SchemaMessage(Msg)
     /\ Msg.event.s \notin DOMAIN on)
    => HookCalls = <<>> /\ HandlerCalls = <<>>

\* C9 (as claimed): the string send(E).data(P).stringify() of a payload P
\* that E's validator accepts, fed to a receiver with a handler for E,
\* invokes that handler exactly once with P, and no hook.  Stated for the
\* calls whose callbacks return.
C9_RoundTrip ==
    (Received /\ CallbacksReturned)
    => \A e \in DOMAIN validators, d \in SendValues :
          (/\ ZodAccepts(validators[e], d)
           /\ input.text = Stringify(e, d)
           /\ Registered(e))
          => /\ Len(HandlerCalls) = 1
             /\ HandlerCalls[1].key = e
             /\ HandlerCalls[1].payload = d
             /\ HookCalls = <<>>

\* An emit call has just completed.
Emitted == pc = "done" /\ op = "emit"

\* The sends of the log that went to endpoint x.
SendsTo(x) == {i \in 1..Len(log) : log[i].cb = "send" /\ log[i].key = x}

\* C10: one emit() calls send at most once on any endpoint and only on
\* endpoints of the list given to .to(...), always with the text
\* .stringify() gives for the same event and payload; when every send
\* returns, each distinct endpoint of the list got exactly one send.
C10_DedupOnSend ==
    Emitted
    => /\ \A i \in 1..Len(log) :
             /\ log[i].cb = "send"
             /\ log[i].key \in Range(input.socks)
             /\ log[i].raw = Stringify(input.event, input.data)
       /\ \A x \in Sockets : Cardinality(SendsTo(x)) <= 1
       /\ outcome = "returned"
            => \A x \in Range(input.socks) : Cardinality(SendsTo(x)) = 1

\* C10 happens: .to([a, a, b]).emit() sent once to a and once to b.
C10_Witness ==
    /\ Emitted
    /\ input.isArray
    /\ input.socks = <<"a", "a", "b">>
    /\ outcome = "returned"
    /\ Len(log) = 2
    /\ log[1].key = "a"
    /\ log[2].key = "b"
\* A step that leaves the schema as it is and every receiver built so far
\* with the handler table and the hooks it was built with.
TablesKept ==
    /\ validators' = validators
    /\ Len(receivers') >= Len(receivers)
    /\ \A r \in 1..Len(receivers) : receivers'[r] = receivers[r]

\* The call that has completed is a receiver call given what the remembered
\* call was given: the same receiver, the same inbound string and the same
\* misbehaving callback.
Repeated ==
    /\ Received
    /\ first # NoCall
    /\ input.receiver = first.receiver
    /\ input.text = first.text
    /\ input.fault = first.fault

\* C11: statelessness across operations.  The schema is at every moment the
\* one given to the constructor; every step, whichever call it is, keeps
\* the schema and keeps the handler table and the hook table of every
\* receiver built so far, a call of receiver(on, config) adding a receiver
\* and touching none; and a receiver call made after any calls on either
\* side, on any receiver, invokes the same callbacks with the same
\* arguments, ends the same way and returns the same value as the call
\* given the same that was made when the instance had processed nothing.
C11_Statelessness ==
    /\ [](validators = TheSchema)
    /\ [][TablesKept]_vars
    /\ [](Repeated => Call = first)

\* The message the instance processed first is processed again by the
\* receiver built first, after calls have completed on both sides and a
\* second receiver has been built: its handler is invoked again.
C11_Witness ==
    /\ Repeated
    /\ past = {"receiver", "sender"}
    /\ input.receiver = 1
    /\ Len(receivers) = 2
    /\ errors # {}
    /\ Len(HandlerCalls) = 1

\* A schema message whose event has a handler and whose data its validator
\* accepts.
Dispatchable(m) ==
    /\ SchemaMessage(m)
    /\ Registered(m.event.s)
    /\ ZodAccepts(validators[m.event.s], m.data)

\* C12: dispatch passes the validated payload.  When the validator of the
\* message's event accepts its data and every callback returns, the call
\* invokes the handler of that event exactly once, and the argument is the
\* value the validator returned for the data, not the decoded data field.
C12_ValidatedPayloadDispatched ==
    (Received /\ CallbacksReturned /\ Dispatchable(Msg))
    => /\ Len(HandlerCalls) = 1
       /\ HandlerCalls[1].key = Msg.event.s
       /\ HandlerCalls[1].payload = ZodOutput(validators[Msg.event.s], Msg.data)

\* The place of a log entry in the order decode, shape check, event
\* recognition, handler presence, payload validation, dispatch.
StageOf(cb) ==
    CASE cb = "onPayloadIsNonJSON" -> 1
      [] cb = "onMalformedJSON" -> 2
      [] cb = "onUnrecognisedEvent" -> 3
      [] cb \in {"parse", "onInvalidPayload"} -> 5
      [] cb = "handler" -> 6
      [] OTHER -> 0

\* The log never steps back to an earlier stage.
InStageOrder ==
    \A i, j \in 1..Len(log) : i < j => StageOf(log[i].cb) <= StageOf(log[j].cb)

\* C13: stage ordering.  For a call on a string that decodes to something
\* other than null, with callbacks that return: the stages act in the order
\* decode, shape check, event recognition, handler presence, payload
\* validation, dispatch; at most one hook reports the message; a message
\* whose event is missing or not a string is reported through
\* onMalformedJSON and never through onUnrecognisedEvent; and a well-shaped
\* message naming an event outside the schema is reported through
\* onUnrecognisedEvent whatever the handler table holds.  (Left out, being
\* the cases of C3, C4 and C7: falsy data, the text null, and event names
\* that are properties every object inherits.)
C13_StageOrdering ==
    (Received /\ CallbacksReturned /\ Msg.ok /\ Msg.v.t # "null" /\ ~FalsyData(Msg))
    => /\ InStageOrder
       /\ Len(HookCalls) <= 1
       /\ Msg.event.t # "string"
            => /\ Calls({"onUnrecognisedEvent"}) = <<>>
               /\ "onMalformedJSON" \in errors => Len(Calls({"onMalformedJSON"})) = 1
       /\ (/\ WellShaped(Msg)
           /\ Msg.event.s \notin DOMAIN validators \cup ObjectPrototypeKeys
           /\ "onUnrecognisedEvent" \in errors)
            => /\ Len(HookCalls) = 1
               /\ HookCalls[1].cb = "onUnrecognisedEvent"

\* A schema message that has no handler to go to, or whose data the
\* validator of its event accepts.
IgnoredOrDispatched(m) ==
    /\ SchemaMessage(m)
    /\ m.event.s \in DOMAIN on => ZodAccepts(validators[m.event.s], m.data)

\* C14: receiver result.  A receiver call that returns gives true when the
\* message was a well-shaped schema message that was dispatched after
\* passing validation or had no handler registered, and false when it
\* stopped at a failure category (not JSON, malformed envelope, unrecognised
\* event, invalid payload).
C14_ReceiverResult ==
    (Received /\ outcome = "returned")
    => result = (IF IgnoredOrDispatched(Msg) THEN Bool(Text("true")) ELSE Bool(Text("false")))
=============================================================================
